---- MODULE Spec2Model ----
(***************************************************************************)
(* AdvancedCounter (React function component): a counter with a change     *)
(* history, a step size, auto-save of the count to localStorage and        *)
(* ArrowUp/ArrowDown keyboard control.                                     *)
(*                                                                         *)
(* The component's three useState cells are the variables count, history   *)
(* and step.  A call of a state setter does not change the cell: it puts   *)
(* an update on the cell's queue, and the next render folds the queue into *)
(* the cell, then the effects whose dependency changed are run.            *)
(***************************************************************************)
EXTENDS Integers, Sequences, FiniteSets

VARIABLES
    mounted,       \* the component is mounted
    slot,          \* localStorage entry 'advancedCounterValue'
    count,         \* useState cell: count (a JS number)
    history,       \* useState cell: history (array of JS numbers)
    step,          \* useState cell: step
    countQueue,    \* setCount calls not yet rendered
    historyQueue,  \* setHistory calls not yet rendered
    stepQueue,     \* setStep calls not yet rendered
    listeners,     \* keydown listeners on document, in registration order
    batch,         \* the events dispatched since the state was last settled
    batched        \* the host may dispatch several events before one render

vars == <<mounted, slot, count, history, step, countQueue, historyQueue,
          stepQueue, listeners, batch, batched>>

----------------------------------------------------------------------------
(* Bounds of the model *)

MaxCount == 7      \* increments/decrements keep |count| within this
MaxHist == 4       \* longest history explored
MaxPending == 2    \* most events dispatched before one render

----------------------------------------------------------------------------
(* JS numbers: an integer or NaN *)

NaN == [nan |-> TRUE, v |-> 0]
Num(i) == [nan |-> FALSE, v |-> i]

\* prevCount + d  (NaN + d is NaN)
Plus(x, d) == IF x.nan THEN NaN ELSE Num(x.v + d)

\* Object.is, by which React compares states and effect dependencies
ObjectIs(a, b) == a = b

MathMax(a, b) == IF a >= b THEN a ELSE b

----------------------------------------------------------------------------
(* Strings are sequences of characters *)

Digits == <<"0", "1", "2", "3", "4", "5", "6", "7", "8", "9">>

IsDigit(ch) == \E i \in 1..10 : Digits[i] = ch

DigitVal(ch) == (CHOOSE i \in 1..10 : Digits[i] = ch) - 1

RECURSIVE TrimStart(_)
TrimStart(s) ==
    IF s # <<>> /\ Head(s) = " " THEN TrimStart(Tail(s)) ELSE s

RECURSIVE DigitsValue(_, _)
DigitsValue(s, acc) ==
    IF s # <<>> /\ IsDigit(Head(s))
    THEN DigitsValue(Tail(s), acc * 10 + DigitVal(Head(s)))
    ELSE acc

\* parseInt(s, 10): leading blanks, an optional sign, the longest run of
\* digits; NaN when there is no digit
parseInt(s) ==
    LET t == TrimStart(s)
        signed == t # <<>> /\ Head(t) \in {"-", "+"}
        u == IF signed THEN Tail(t) ELSE t
    IN  IF u = <<>> \/ ~IsDigit(Head(u))
        THEN NaN
        ELSE IF signed /\ Head(t) = "-"
             THEN Num(0 - DigitsValue(u, 0))
             ELSE Num(DigitsValue(u, 0))

RECURSIVE NatToString(_)
NatToString(n) ==
    IF n < 10
    THEN <<Digits[n + 1]>>
    ELSE NatToString(n \div 10) \o <<Digits[(n % 10) + 1]>>

\* Number.prototype.toString
toString(x) ==
    IF x.nan THEN <<"N", "a", "N">>
    ELSE IF x.v < 0 THEN <<"-">> \o NatToString(0 - x.v)
    ELSE NatToString(x.v)

----------------------------------------------------------------------------
(* localStorage entry: getItem gives null or a string *)

Absent == [present |-> FALSE, str |-> <<>>]
Present(s) == [present |-> TRUE, str |-> s]

\* what the entry may hold when the page is loaded
InitialSlots ==
    { Absent,
      Present(<<"7">>),
      Present(<<"-", "3">>),
      Present(<<" ", "5">>),
      Present(<<"2", "x">>),
      Present(<<"a", "b", "c">>),
      Present(<<>>) }

\* what the user may type into the step input
StepInputs ==
    { <<"2">>, <<"0">>, <<"-", "5">>, <<"2", ".", "5">>, <<"a", "b", "c">>,
      <<>> }

Keys == {"ArrowUp", "ArrowDown", "Enter"}

----------------------------------------------------------------------------
(* Updates on the queues of the state cells *)

ValueUpdate(x) == [kind |-> "value", value |-> x, delta |-> 0]
UpdaterUpdate(d) == [kind |-> "updater", value |-> Num(0), delta |-> d]

AppendItem(x) == [kind |-> "append", item |-> x, list |-> <<>>]
SetList(l) == [kind |-> "set", item |-> Num(0), list |-> l]

NoPending == countQueue = <<>> /\ historyQueue = <<>> /\ stepQueue = <<>>

\* The count queue folded into the count.  An updater
\*     prevCount => { newCount = prevCount + d; setHistory(append newCount);
\*                    return newCount }
\* runs here, during the render, and its setHistory call goes to the end of
\* the history queue.
RECURSIVE ApplyCountQueue(_, _, _)
ApplyCountQueue(c, q, hq) ==
    IF q = <<>> THEN [count |-> c, hq |-> hq]
    ELSE LET u == Head(q)
         IN  IF u.kind = "value"
             THEN ApplyCountQueue(u.value, Tail(q), hq)
             ELSE LET newCount == Plus(c, u.delta)
                  IN  ApplyCountQueue(newCount, Tail(q),
                                      Append(hq, AppendItem(newCount)))

RECURSIVE ApplyHistoryQueue(_, _)
ApplyHistoryQueue(h, q) ==
    IF q = <<>> THEN h
    ELSE LET u == Head(q)
         IN  IF u.kind = "set"
             THEN ApplyHistoryQueue(u.list, Tail(q))
             ELSE ApplyHistoryQueue(Append(h, u.item), Tail(q))

ApplyStepQueue(s, q) == IF q = <<>> THEN s ELSE q[Len(q)]

RenderedCount == ApplyCountQueue(count, countQueue, historyQueue).count
RenderedHistory ==
    ApplyHistoryQueue(history,
                      ApplyCountQueue(count, countQueue, historyQueue).hq)
RenderedStep == ApplyStepQueue(step, stepQueue)

----------------------------------------------------------------------------
(* The lazy initializers of the state cells *)

\* a count initializer that ignores the saved value
InitialCountIgnoresSaved(s) == Num(0)

\* count: useState(() => ...)
InitialCount(s) ==
    IF s.present THEN parseInt(s.str) ELSE Num(0)

\* a history initializer that always starts from 0
InitialHistoryDefault(s) == <<Num(0)>>

\* a history initializer that falls back to 0 when the saved value does not
\* parse
InitialHistoryNaNToZero(s) ==
    IF s.present /\ ~parseInt(s.str).nan THEN <<parseInt(s.str)>>
    ELSE <<Num(0)>>

\* history: useState(() => ...)
InitialHistory(s) ==
    IF s.present THEN <<parseInt(s.str)>> ELSE <<Num(0)>>

InitialStep == 1

----------------------------------------------------------------------------
(* Effect #1: auto-save, dependency [count] *)

\* an auto-save that stores JSON.stringify(count.toString())
AutoSaveQuoted(c) == Present(<<"\"">> \o toString(c) \o <<"\"">>)

\* localStorage.setItem('advancedCounterValue', count.toString())
AutoSave(c) == Present(toString(c))

\* effect #1 with dependency [] instead of [count]: it runs at mount only
CountDepNever(prev, next) == FALSE

\* effect #1 without a dependency array: it runs after every render
CountDepAlways(prev, next) == TRUE

CountDepChanged(prev, next) == ~ObjectIs(prev, next)

(* Effect #2: the keydown listener, dependency [step].  A listener is the  *)
(* closure handleKeyPress of one run of the effect; all that tells two of  *)
(* them apart is the step the closure captured.                            *)

\* effect #2 with dependency [] instead of [step]
StepDepNever(prev, next) == FALSE

StepDepChanged(prev, next) == prev # next

\* document.addEventListener('keydown', handleKeyPress)
AddListener(ls, s) == Append(ls, s)

RECURSIVE RemoveFirst(_, _)
RemoveFirst(ls, s) ==
    IF ls = <<>> THEN <<>>
    ELSE IF Head(ls) = s THEN Tail(ls)
    ELSE <<Head(ls)>> \o RemoveFirst(Tail(ls), s)

\* effect #2 without its cleanup
RemoveListenerMissing(ls, s) == ls

\* the cleanup: document.removeEventListener('keydown', handleKeyPress)
RemoveListener(ls, s) == RemoveFirst(ls, s)

\* a handleKeyPress with the two arrow keys swapped
KeyDeltasSwapped(key, s) ==
    IF key = "ArrowDown" THEN <<s>>
    ELSE IF key = "ArrowUp" THEN <<0 - s>>
    ELSE <<>>

\* handleKeyPress of a listener that captured step s: the signed steps it
\* passes to setCount for the key
KeyDeltas(key, s) ==
    IF key = "ArrowUp" THEN <<s>>
    ELSE IF key = "ArrowDown" THEN <<0 - s>>
    ELSE <<>>

----------------------------------------------------------------------------
(* Dispatch *)

Event(ev, d, text) == [ev |-> ev, d |-> d, text |-> text]

\* the log of the events of the batch being dispatched
Logged(e) == IF NoPending THEN <<e>> ELSE Append(batch, e)

\* an event can be dispatched: the browser delivers one at a time, each
\* followed by React's render (batched = FALSE); a script that dispatches
\* several events in a row has them rendered together (batched = TRUE)
CanDispatch ==
    /\ mounted
    /\ NoPending \/ (batched /\ Len(batch) < MaxPending)

\* React may run an updater at once when no update is pending, and otherwise
\* runs it in the next render
EagerChoices == IF NoPending THEN {TRUE, FALSE} ELSE {FALSE}

\* the handlers written on the rendered snapshot instead of an updater:
\*     setCount(count + d); setHistory([...history, count + d])
setCountFromSnapshot(q, d, eager) ==
    LET newCount == Plus(count, d)
    IN  [cq |-> Append(q.cq, ValueUpdate(newCount)),
         hq |-> Append(q.hq, SetList(Append(history, newCount)))]

\* an updater whose setHistory call is made twice when it runs at the call
setCountByAppendsTwice(q, d, eager) ==
    IF eager
    THEN LET newCount == Plus(count, d)
         IN  [cq |-> Append(q.cq, ValueUpdate(newCount)),
              hq |-> q.hq \o <<AppendItem(newCount), AppendItem(newCount)>>]
    ELSE [cq |-> Append(q.cq, UpdaterUpdate(d)), hq |-> q.hq]

\* setCount(prevCount => { const newCount = prevCount + d;
\*                         setHistory(prevHistory => [...prevHistory, newCount]);
\*                         return newCount })
\* on the queues q = [cq, hq]
setCountBy(q, d, eager) ==
    IF eager
    THEN LET newCount == Plus(count, d)
         IN  [cq |-> Append(q.cq, ValueUpdate(newCount)),
              hq |-> Append(q.hq, AppendItem(newCount))]
    ELSE [cq |-> Append(q.cq, UpdaterUpdate(d)), hq |-> q.hq]

Queues == [cq |-> countQueue, hq |-> historyQueue]

\* the bounds leave room for one more change of the count by d
RoomFor(d) ==
    /\ Len(RenderedHistory) < MaxHist
    /\ RenderedCount.nan \/ (RenderedCount.v + d) \in (0 - MaxCount)..MaxCount

\* the keydown event delivered to every registered listener in turn
RECURSIVE DispatchKey(_, _, _, _)
DispatchKey(ls, key, q, eager) ==
    IF ls = <<>> THEN q
    ELSE LET ds == KeyDeltas(key, Head(ls))
         IN  IF ds = <<>>
             THEN DispatchKey(Tail(ls), key, q, eager)
             ELSE DispatchKey(Tail(ls), key, setCountBy(q, ds[1], eager), FALSE)

----------------------------------------------------------------------------
(* Actions *)

InitState ==
    /\ mounted = FALSE
    /\ slot \in InitialSlots
    /\ count = Num(0)
    /\ history = <<>>
    /\ step = InitialStep
    /\ countQueue = <<>>
    /\ historyQueue = <<>>
    /\ stepQueue = <<>>
    /\ listeners = <<>>
    /\ batch = <<>>

Init == InitState /\ batched = FALSE

\* a page whose script dispatches events in a row
BatchSlots == {Absent, Present(<<"-", "3">>), Present(<<"a", "b", "c">>)}

InitBatch == InitState /\ slot \in BatchSlots /\ batched = TRUE

\* first render of the component and its two effects
Mount ==
    /\ ~mounted
    /\ mounted' = TRUE
    /\ count' = InitialCount(slot)
    /\ history' = InitialHistory(slot)
    /\ step' = InitialStep
    /\ slot' = AutoSave(count')
    /\ listeners' = AddListener(listeners, step')
    /\ countQueue' = <<>>
    /\ historyQueue' = <<>>
    /\ stepQueue' = <<>>
    /\ batch' = <<Event("mount", 0, <<>>)>>
    /\ UNCHANGED batched

handleIncrement ==
    /\ CanDispatch
    /\ RoomFor(step)
    /\ \E eager \in EagerChoices :
         LET q == setCountBy(Queues, step, eager)
         IN  countQueue' = q.cq /\ historyQueue' = q.hq
    /\ batch' = Logged(Event("increment", step, <<>>))
    /\ UNCHANGED <<mounted, slot, count, history, step, stepQueue, listeners,
                   batched>>

\* a decrement that ignores the step: prevCount - 1
handleDecrementByOne ==
    /\ CanDispatch
    /\ RoomFor(0 - step)
    /\ \E eager \in EagerChoices :
         LET q == setCountBy(Queues, 0 - 1, eager)
         IN  countQueue' = q.cq /\ historyQueue' = q.hq
    /\ batch' = Logged(Event("decrement", 0 - step, <<>>))
    /\ UNCHANGED <<mounted, slot, count, history, step, stepQueue, listeners,
                   batched>>

handleDecrement ==
    /\ CanDispatch
    /\ RoomFor(0 - step)
    /\ \E eager \in EagerChoices :
         LET q == setCountBy(Queues, 0 - step, eager)
         IN  countQueue' = q.cq /\ historyQueue' = q.hq
    /\ batch' = Logged(Event("decrement", 0 - step, <<>>))
    /\ UNCHANGED <<mounted, slot, count, history, step, stepQueue, listeners,
                   batched>>

\* a reset that leaves the history alone
handleResetKeepsHistory ==
    /\ CanDispatch
    /\ countQueue' = Append(countQueue, ValueUpdate(Num(0)))
    /\ batch' = Logged(Event("reset", 0, <<>>))
    /\ UNCHANGED <<mounted, slot, count, history, step, historyQueue,
                   stepQueue, listeners, batched>>

handleReset ==
    /\ CanDispatch
    /\ countQueue' = Append(countQueue, ValueUpdate(Num(0)))
    /\ historyQueue' = Append(historyQueue, SetList(<<Num(0)>>))
    /\ batch' = Logged(Event("reset", 0, <<>>))
    /\ UNCHANGED <<mounted, slot, count, history, step, stepQueue, listeners,
                   batched>>

\* a step handler without Math.max(1, ...)
handleStepChangeNoClamp(text) ==
    /\ CanDispatch
    /\ LET newStep == parseInt(text)
       IN  IF ~newStep.nan
           THEN stepQueue' = Append(stepQueue, newStep.v)
           ELSE stepQueue' = stepQueue
    /\ batch' = Logged(Event("stepChange", 0, text))
    /\ UNCHANGED <<mounted, slot, count, history, step, countQueue,
                   historyQueue, listeners, batched>>

\* a step handler that turns an unparsable input into step 1
handleStepChangeNaNToOne(text) ==
    /\ CanDispatch
    /\ LET newStep == parseInt(text)
       IN  IF ~newStep.nan
           THEN stepQueue' = Append(stepQueue, MathMax(1, newStep.v))
           ELSE stepQueue' = Append(stepQueue, 1)
    /\ batch' = Logged(Event("stepChange", 0, text))
    /\ UNCHANGED <<mounted, slot, count, history, step, countQueue,
                   historyQueue, listeners, batched>>

handleStepChange(text) ==
    /\ CanDispatch
    /\ LET newStep == parseInt(text)
       IN  IF ~newStep.nan
           THEN stepQueue' = Append(stepQueue, MathMax(1, newStep.v))
           ELSE stepQueue' = stepQueue
    /\ batch' = Logged(Event("stepChange", 0, text))
    /\ UNCHANGED <<mounted, slot, count, history, step, countQueue,
                   historyQueue, listeners, batched>>

\* a keydown event on the document
KeyDown(key) ==
    /\ CanDispatch
    /\ key = "ArrowUp" => RoomFor(step)
    /\ key = "ArrowDown" => RoomFor(0 - step)
    /\ \E eager \in EagerChoices :
         LET q == DispatchKey(listeners, key, Queues, eager)
         IN  countQueue' = q.cq /\ historyQueue' = q.hq
    /\ batch' = Logged(Event(key, IF key = "ArrowUp" THEN step
                                  ELSE IF key = "ArrowDown" THEN 0 - step
                                  ELSE 0, <<>>))
    /\ UNCHANGED <<mounted, slot, count, history, step, stepQueue, listeners,
                   batched>>

\* React renders the pending updates, commits, and runs the effects whose
\* dependency changed (the old effect's cleanup first).  Clicks, input edits
\* and key presses are discrete events: their render is synchronous and its
\* effects are flushed with the commit, before the next event is handled.
Render ==
    /\ mounted
    /\ ~NoPending
    /\ count' = RenderedCount
    /\ history' = RenderedHistory
    /\ step' = RenderedStep
    /\ countQueue' = <<>>
    /\ historyQueue' = <<>>
    /\ stepQueue' = <<>>
    /\ slot' = IF CountDepChanged(count, count') THEN AutoSave(count') ELSE slot
    /\ listeners' = IF StepDepChanged(step, step')
                    THEN AddListener(RemoveListener(listeners, step), step')
                    ELSE listeners
    /\ UNCHANGED <<mounted, batch, batched>>

\* an unmount that forgets the cleanup of effect #2
UnmountKeepsListener ==
    /\ mounted
    /\ NoPending
    /\ mounted' = FALSE
    /\ batch' = <<Event("unmount", 0, <<>>)>>
    /\ UNCHANGED <<slot, count, history, step, countQueue, historyQueue,
                   stepQueue, listeners, batched>>

\* the component is unmounted: the cleanup of effect #2 runs
Unmount ==
    /\ mounted
    /\ NoPending
    /\ mounted' = FALSE
    /\ listeners' = RemoveListener(listeners, step)
    /\ batch' = <<Event("unmount", 0, <<>>)>>
    /\ UNCHANGED <<slot, count, history, step, countQueue, historyQueue,
                   stepQueue, batched>>

Next ==
    \/ Mount
    \/ handleIncrement
    \/ handleDecrement
    \/ handleReset
    \/ \E text \in StepInputs : handleStepChange(text)
    \/ \E key \in Keys : KeyDown(key)
    \/ Render
    \/ Unmount

Spec == Init /\ [][Next]_vars

\* one session of the widget, with events dispatched in a row
BatchStepInputs == {<<"2">>, <<"0">>}

BatchKeys == {"ArrowUp", "ArrowDown"}

NextBatch ==
    \/ Mount
    \/ handleIncrement
    \/ handleDecrement
    \/ handleReset
    \/ \E text \in BatchStepInputs : handleStepChange(text)
    \/ \E key \in BatchKeys : KeyDown(key)
    \/ Render

SpecBatch == InitBatch /\ [][NextBatch]_vars

----------------------------------------------------------------------------
(* The widget among other code of the page's origin: the localStorage entry  *)
(* is shared, and the document outlives the component.                       *)

\* what other code may leave in the entry (removeItem, or setItem)
ExternalValues == {Absent, Present(<<"4">>)}

\* other code overwrites the entry; the component registers no 'storage'
\* listener and reads the entry in its lazy initializers only
ExternalWrite(s) ==
    /\ s # slot
    /\ slot' = s
    /\ UNCHANGED <<mounted, count, history, step, countQueue, historyQueue,
                   stepQueue, listeners, batch, batched>>

\* a keydown event on the document after the component was unmounted: it is
\* delivered to the handleKeyPress closures still registered, whose setCount
\* calls go to the cells of the unmounted component
KeyDownUnmounted(key) ==
    /\ ~mounted
    /\ history # <<>>
    /\ LET q == DispatchKey(listeners, key, Queues, FALSE)
       IN  countQueue' = q.cq /\ historyQueue' = q.hq
    /\ batch' = <<Event(key, 0, <<>>)>>
    /\ UNCHANGED <<mounted, slot, count, history, step, stepQueue, listeners,
                   batched>>

NextShared ==
    \/ Next
    \/ \E s \in ExternalValues : ExternalWrite(s)
    \/ \E key \in Keys : KeyDownUnmounted(key)

SpecShared == Init /\ [][NextShared]_vars

----------------------------------------------------------------------------
(* Properties *)

\* the state is settled: mounted, every dispatched update rendered and the
\* effects run
Settled == mounted /\ NoPending

LastEvent == batch[Len(batch)]

CountRange == (0 - MaxCount)..MaxCount

\* C1: once the updates of the last transition are rendered and the effects
\* have run (also right after mount), the persisted slot holds exactly the
\* string form of the current count.
C1_SlotMirrorsCount ==
    Settled => slot = Present(toString(count))

C1_Witness ==
    /\ Settled
    /\ batch = <<Event("ArrowDown", -1, <<>>)>>
    /\ count = Num(-4)
    /\ slot = Present(<<"-", "4">>)

\* C2: at most one keydown listener is registered at any moment, exactly one
\* while the widget is mounted however often step has changed, and one
\* ArrowUp event makes exactly one count update and one history entry.
C2_OneListener ==
    /\ [](Len(listeners) <= 1 /\ (mounted => Len(listeners) = 1))
    /\ [][KeyDown("ArrowUp") =>
            /\ Len(countQueue') = Len(countQueue) + 1
            /\ Len(RenderedHistory') = Len(RenderedHistory) + 1]_vars

C2_Witness ==
    /\ Settled
    /\ step = 2
    /\ Len(listeners) = 1
    /\ batch = <<Event("ArrowUp", 2, <<>>)>>
    /\ history = <<Num(0), Num(2)>>

\* C3: the registered listener always holds the current step, so ArrowUp
\* changes the count by exactly +step and ArrowDown by exactly -step, never
\* by a step set earlier.
C3_KeyUsesCurrentStep ==
    /\ [](mounted => listeners = <<step>>)
    /\ [][KeyDown("ArrowUp") => RenderedCount' = Plus(RenderedCount, step)]_vars
    /\ [][KeyDown("ArrowDown") =>
            RenderedCount' = Plus(RenderedCount, 0 - step)]_vars

C3_Witness ==
    /\ Settled
    /\ step = 2
    /\ batch = <<Event("ArrowDown", -2, <<>>)>>
    /\ history = <<Num(-3), Num(-5)>>
    /\ count = Num(-5)

IsDelta(e) == e.ev \in {"increment", "decrement", "ArrowUp", "ArrowDown"}

RECURSIVE SumOfDeltas(_)
SumOfDeltas(b) == IF b = <<>> THEN 0 ELSE Head(b).d + SumOfDeltas(Tail(b))

\* the counts passed through from c by the signed steps of b
RECURSIVE Intermediates(_, _)
Intermediates(c, b) ==
    IF b = <<>> THEN <<>>
    ELSE <<Plus(c, Head(b).d)>> \o Intermediates(Plus(c, Head(b).d), Tail(b))

\* C4: when n increments/decrements (buttons or keys) are dispatched in a row
\* and rendered together, the count becomes the start count plus the sum of
\* the signed steps, and the history is extended by exactly the n
\* intermediate counts in dispatch order.
C4_DeltasCompose ==
    [][(Render /\ \A i \in 1..Len(batch) : IsDelta(batch[i])) =>
          /\ count' = Plus(count, SumOfDeltas(batch))
          /\ history' = history \o Intermediates(count, batch)]_vars

C4_Witness ==
    /\ Settled
    /\ batch = <<Event("increment", 2, <<>>), Event("ArrowUp", 2, <<>>)>>
    /\ count = Num(4)
    /\ history = <<Num(0), Num(2), Num(4)>>

C7_StepAtLeastOne ==
    /\ [](step \in Nat /\ step >= 1)
    /\ [][Mount => step' = 1]_vars
    /\ [][\A n \in CountRange :
            (Render /\ batch = <<Event("stepChange", 0, toString(Num(n)))>>)
                => step' = IF n >= 1 THEN n ELSE 1]_vars

C7_Witness ==
    /\ Settled
    /\ batch = <<Event("stepChange", 0, <<"-", "5">>)>>
    /\ step = 1
    /\ Len(history) = 2
    /\ history[2] = Plus(history[1], 2)

\* C8: mounting with an absent slot gives count = 0, history = [0], step = 1;
\* mounting with the decimal string of an integer v gives count = v,
\* history = [v], step = 1.
C8_MountRestores ==
    [][Mount =>
          /\ ~slot.present =>
                (count' = Num(0) /\ history' = <<Num(0)>> /\ step' = 1)
          /\ \A v \in CountRange :
                slot = Present(toString(Num(v))) =>
                    (count' = Num(v) /\ history' = <<Num(v)>> /\ step' = 1)]_vars

C8_Witness ==
    /\ Settled
    /\ batch = <<Event("mount", 0, <<>>)>>
    /\ count = Num(7)
    /\ history = <<Num(7)>>
    /\ step = 1
    /\ slot = Present(<<"7">>)

\* C9: mounting with a slot that is present but does not parse as an integer
\* is treated like an absent slot: count = 0 and history = [0].
C9_MalformedAsAbsent ==
    [][(Mount /\ slot.present /\ parseInt(slot.str).nan) =>
          (count' = Num(0) /\ history' = <<Num(0)>>)]_vars

\* a string is the decimal form of a signed integer
IsDecimalInteger(s) ==
    LET u == IF s # <<>> /\ Head(s) = "-" THEN Tail(s) ELSE s
    IN  u # <<>> /\ \A i \in 1..Len(u) : IsDigit(u[i])

\* C10: whatever the slot held at mount and whatever step inputs follow, the
\* count is an integer in every reachable state and every value the widget
\* writes to the slot is the decimal string of a signed integer.
C10_NoErrorInState ==
    mounted => (~count.nan /\ slot.present /\ IsDecimalInteger(slot.str))

\* C11: a step change, valid or clamped, leaves count, history and the
\* persisted slot as they are and writes nothing to the slot (a value other
\* code left there stays); the slot is written only when count changes value.
C11_StepChangeWritesNothing ==
    /\ [][\A text \in StepInputs :
            handleStepChange(text) => UNCHANGED <<count, history, slot>>]_vars
    /\ [][(Render /\ countQueue = <<>> /\ historyQueue = <<>>) =>
            (count' = count /\ history' = history /\ slot' = slot)]_vars
    /\ [][(Render /\ slot' # slot) => count' # count]_vars

C11_Witness ==
    /\ Settled
    /\ batch = <<Event("stepChange", 0, <<"-", "5">>)>>
    /\ step = 1
    /\ count = Num(-1)
    /\ history = <<Num(-3), Num(-1)>>
    /\ slot = Present(<<"4">>)

NonNumericTexts == {<<"a", "b", "c">>, <<>>}

\* C12: a non-numeric step input is a no-op: step keeps its value, and count,
\* history, the persisted slot and the registered listener are unchanged (no
\* update is even queued).
C12_NonNumericStepIgnored ==
    [][\A text \in NonNumericTexts :
          handleStepChange(text) =>
              UNCHANGED <<step, count, history, slot, listeners, countQueue,
                          historyQueue, stepQueue>>]_vars

C12_Witness ==
    /\ Settled
    /\ batch = <<Event("stepChange", 0, <<"a", "b", "c">>)>>
    /\ step = 2
    /\ listeners = <<2>>

\* C13: the count survives a session, history and step do not: when a widget
\* that ended with count = c is unmounted and mounted again, the new mount
\* has count = c, history = [c] and step = 1.
C13_CountSurvivesSession ==
    [][(Mount /\ history # <<>>) =>
          (count' = count /\ history' = <<count>> /\ step' = 1)]_vars

C13_Witness ==
    /\ Settled
    /\ batch = <<Event("mount", 0, <<>>)>>
    /\ count = Num(-5)
    /\ history = <<Num(-5)>>
    /\ step = 1
    /\ slot = Present(<<"-", "5">>)

Outcome(q) ==
    LET r == ApplyCountQueue(count, q.cq, q.hq)
    IN  [count |-> r.count,
         history |-> ApplyHistoryQueue(history, r.hq),
         step |-> RenderedStep,
         slot |-> IF r.count = count THEN slot ELSE Present(toString(r.count))]

\* C15: in every reachable state an ArrowUp key press leads to the same
\* count, history, step and slot as the Increment button, an ArrowDown to the
\* same as the Decrement button, and any other key changes none of them.
C15_KeysMatchButtons ==
    mounted =>
        \A e1 \in EagerChoices, e2 \in EagerChoices :
            /\ Outcome(DispatchKey(listeners, "ArrowUp", Queues, e1))
                 = Outcome(setCountBy(Queues, step, e2))
            /\ Outcome(DispatchKey(listeners, "ArrowDown", Queues, e1))
                 = Outcome(setCountBy(Queues, 0 - step, e2))
            /\ \A key \in Keys \ {"ArrowUp", "ArrowDown"} :
                 Outcome(DispatchKey(listeners, key, Queues, e1))
                   = Outcome(Queues)

C15_Witness ==
    /\ Settled
    /\ batch = <<Event("ArrowUp", 2, <<>>)>>
    /\ step = 2
    /\ history = <<Num(-3), Num(-1)>>
    /\ slot = Present(<<"-", "1">>)

\* C16: after unmount no keydown listener of the widget is registered,
\* however often step changed before, so a key press after unmount changes
\* neither the state cells nor the persisted slot.
C16_NoListenerAfterUnmount ==
    /\ [](~mounted => listeners = <<>>)
    /\ [][\A key \in Keys :
            KeyDownUnmounted(key) =>
                UNCHANGED <<count, history, step, slot, countQueue,
                            historyQueue, stepQueue>>]_vars

C16_Witness ==
    /\ ~mounted
    /\ batch = <<Event("ArrowUp", 0, <<>>)>>
    /\ step = 2
    /\ Len(history) = 3
    /\ listeners = <<>>

\* C17: the slot is read at mount only: when other code overwrites it while
\* the widget is mounted, count, history and step (and the pending updates)
\* are unchanged by that write, and the next change of count overwrites the
\* slot with the widget's count.
C17_SlotReadAtMountOnly ==
    /\ [][\A s \in ExternalValues :
            ExternalWrite(s) =>
                /\ UNCHANGED <<count, history, step>>
                /\ RenderedCount' = RenderedCount
                /\ RenderedHistory' = RenderedHistory
                /\ RenderedStep' = RenderedStep]_vars
    /\ [][(mounted /\ mounted' /\ count' # count) =>
            slot' = Present(toString(count'))]_vars

C17_Witness ==
    /\ Settled
    /\ batch = <<Event("increment", 1, <<>>)>>
    /\ count = Num(-2)
    /\ history = <<Num(-3), Num(-2)>>
    /\ slot = Present(<<"4">>)

C19_IncrementThenDecrementRestores ==
    [][(/\ Render
        /\ Len(batch) = 1
        /\ IsDelta(LastEvent)
        /\ Len(history) >= 2
        /\ history[Len(history)]
             = Plus(history[Len(history) - 1], 0 - LastEvent.d)) =>
          /\ count' = history[Len(history) - 1]
          /\ slot' = Present(toString(history[Len(history) - 1]))
          /\ history' = Append(history, history[Len(history) - 1])]_vars

C19_Witness ==
    /\ Settled
    /\ batch = <<Event("decrement", -2, <<>>)>>
    /\ step = 2
    /\ count = Num(0)
    /\ history = <<Num(0), Num(2), Num(0)>>
    /\ slot = Present(<<"0">>)

====
